---- MODULE Spec2Model ----
(***************************************************************************)
(* Model of src/services/walkthroughServices.js of tutorial-web-app: the   *)
(* watch-event classifier (handleResourceWatchEvent), the OpenShift 4      *)
(* single-service provisioner (provisionOpenShift4Service), the aggregate  *)
(* provisioner (provisionManagedServiceSlices, a Promise.all over one      *)
(* .then-chained task per recognized service) and the walkthrough          *)
(* preparation entry points (prepareCustomWalkthroughNamespace,            *)
(* prepareWalkthroughV4).                                                  *)
(*                                                                         *)
(* The Redux store is seen through `dispatched`, the log of the actions    *)
(* handed to dispatch, and through `registry`, the walkthrough-service     *)
(* registry the store keeps from the add/remove notifications.             *)
(***************************************************************************)
EXTENDS Integers, Sequences, FiniteSets, TLC

VARIABLES
  events,      \* watch events delivered to handleResourceWatchEvent, in order
  dispatched,  \* every action handed to dispatch, in order
  registry,    \* the store's walkthrough-service registry (set of entries)
  p4log,       \* calls of provisionOpenShift4Service with what each returned
  started,     \* provisioner invocations, in order
  apiCalls,    \* cluster API calls issued, in order
  agg,         \* the promise provisionManagedServiceSlices returned
  tasks,       \* the svcProvisions array of that call
  prepared,    \* calls of the prepare* entry points with what each returned
  saves,       \* calls of setUserWalkthroughs with the state of each one's promise chain
  requests,    \* HTTP requests handed to axios, in order
  rendering,   \* one parseServiceInstanceTemplate / parseTemplate call, stage by stage
  pages,       \* the LandingPage instances mounted so far
  propCalls    \* calls of the LandingPage props (connected action creators), in order

vars == <<events, dispatched, registry, p4log, started, apiCalls, agg, tasks, prepared,
          saves, requests, rendering, pages, propCalls>>

watchVars == <<events, registry>>
p4Vars == <<p4log>>
sliceVars == <<agg, tasks>>
prepVars == <<prepared>>
saveVars == <<saves, requests>>
renderVars == <<rendering>>
pageVars == <<pages, propCalls>>

----------------------------------------------------------------------------
(* Bounds of the model *)

MaxEvents == 4
MaxFeed == 5
MaxP4Calls == 2
MaxSvcs == 3
MaxPrepare == 3
MaxSaves == 2
MaxLeaf == 2
MaxValue == 2
MaxMounts == 2
MaxWork == 3

Walkthroughs == {"w1", "w2"}
Resources == {"R1", "R2"}

None == "none"

----------------------------------------------------------------------------
(* Watch events and the notifications made from them *)

OpenShiftWatchEvents ==
  [OPENED |-> "OPENED", ADDED |-> "ADDED", MODIFIED |-> "MODIFIED",
   DELETED |-> "DELETED", CLOSED |-> "CLOSED"]

LifecycleTypes == {OpenShiftWatchEvents.OPENED, OpenShiftWatchEvents.CLOSED}
DataTypes == {OpenShiftWatchEvents.ADDED, OpenShiftWatchEvents.MODIFIED,
              OpenShiftWatchEvents.DELETED}

\* A resource snapshot: its identity and the revision the cluster gave it.
\* The n-th event of a run carries revision n, as resourceVersion grows.
Payload(r, n) == [id |-> r, rev |-> n]

\* The events the stream can deliver as its n-th event.
\* OPENED and CLOSED mark the stream's lifecycle and carry no resource.
NoPayload == [id |-> None, rev |-> 0]

WatchEventsAt(n) ==
  {[type |-> t, payload |-> NoPayload] : t \in LifecycleTypes}
  \cup {[type |-> t, payload |-> Payload(r, n)] : t \in DataTypes, r \in Resources}

addWalkthroughService(walkthroughId, payload) ==
  [type |-> "ADD_WALKTHROUGH_SERVICE", wt |-> walkthroughId, payload |-> payload]

removeWalkthroughService(walkthroughId, payload) ==
  [type |-> "REMOVE_WALKTHROUGH_SERVICE", wt |-> walkthroughId, payload |-> payload]

Closed(w) ==
  \E i \in 1..Len(events) :
    events[i].wt = w /\ events[i].ev.type = OpenShiftWatchEvents.CLOSED

\* Mutants of handleResourceWatchEvent.
handleResourceWatchEvent_dedup(walkthroughId, event) ==
  IF event.type = OpenShiftWatchEvents.ADDED
    THEN <<addWalkthroughService(walkthroughId, event.payload)>>
  ELSE IF event.type = OpenShiftWatchEvents.DELETED
    THEN <<removeWalkthroughService(walkthroughId, event.payload)>>
  ELSE <<>>

handleResourceWatchEvent_terminal(walkthroughId, event) ==
  IF Closed(walkthroughId) \/ event.type \in LifecycleTypes
    THEN <<>>
  ELSE IF event.type \in {OpenShiftWatchEvents.ADDED, OpenShiftWatchEvents.MODIFIED}
    THEN <<addWalkthroughService(walkthroughId, event.payload)>>
  ELSE <<removeWalkthroughService(walkthroughId, event.payload)>>

handleResourceWatchEvent_modifiedRemoves(walkthroughId, event) ==
  IF event.type \in LifecycleTypes
    THEN <<>>
  ELSE IF event.type = OpenShiftWatchEvents.ADDED
    THEN <<addWalkthroughService(walkthroughId, event.payload)>>
  ELSE <<removeWalkthroughService(walkthroughId, event.payload)>>

handleResourceWatchEvent_closedRemoves(walkthroughId, event) ==
  IF event.type = OpenShiftWatchEvents.OPENED
    THEN <<>>
  ELSE IF event.type \in {OpenShiftWatchEvents.ADDED, OpenShiftWatchEvents.MODIFIED}
    THEN <<addWalkthroughService(walkthroughId, event.payload)>>
  ELSE <<removeWalkthroughService(walkthroughId, event.payload)>>

\* handleResourceWatchEvent: the actions it hands to dispatch, in order.
handleResourceWatchEvent(walkthroughId, event) ==
  IF event.type = OpenShiftWatchEvents.OPENED \/ event.type = OpenShiftWatchEvents.CLOSED
    THEN <<>>
  ELSE IF event.type = OpenShiftWatchEvents.ADDED \/ event.type = OpenShiftWatchEvents.MODIFIED
    THEN <<addWalkthroughService(walkthroughId, event.payload)>>
  ELSE IF event.type = OpenShiftWatchEvents.DELETED
    THEN <<removeWalkthroughService(walkthroughId, event.payload)>>
  ELSE <<>>

\* The store's registry, keyed by (walkthroughId, resource identity): an add
\* notification adds or replaces the key's entry, a remove notification drops it.
SameKey(entry, w, payload) == entry.wt = w /\ entry.res.id = payload.id

registryReducer(reg, action) ==
  IF action.type = "ADD_WALKTHROUGH_SERVICE"
    THEN {e \in reg : ~SameKey(e, action.wt, action.payload)}
         \cup {[wt |-> action.wt, res |-> action.payload]}
  ELSE IF action.type = "REMOVE_WALKTHROUGH_SERVICE"
    THEN {e \in reg : ~SameKey(e, action.wt, action.payload)}
  ELSE reg

RECURSIVE reduceAll(_, _)
reduceAll(reg, actions) ==
  IF actions = <<>> THEN reg
  ELSE reduceAll(registryReducer(reg, Head(actions)), Tail(actions))

\* One event of walkthrough w's watch reaches the handler; dispatch is
\* synchronous, so the store has reduced the notification when it returns.
Deliver(w, e) ==
  /\ events' = Append(events, [wt |-> w, ev |-> e])
  /\ dispatched' = dispatched \o handleResourceWatchEvent(w, e)
  /\ registry' = reduceAll(registry, handleResourceWatchEvent(w, e))
  /\ UNCHANGED <<p4Vars, started, apiCalls, sliceVars, prepVars, saveVars, renderVars, pageVars>>

WatchEvent ==
  \E w \in Walkthroughs :
    \E e \in WatchEventsAt(Len(events) + 1) :
      /\ Len(events) < MaxEvents
      /\ Deliver(w, e)

\* The stream of a single subscription.
FeedWalkthrough == "w1"

FeedEvent ==
  \E e \in WatchEventsAt(Len(events) + 1) :
    /\ Len(events) < MaxFeed
    /\ Deliver(FeedWalkthrough, e)

----------------------------------------------------------------------------
(* provisionOpenShift4Service *)

\* An argument left out (undefined or null), and what a set argument looks like.
Unset == [set |-> FALSE]
Given(x) == x.set

DEFAULT_SERVICES == [FUSE |-> "fuse", ENMASSE |-> "enmasse"]

ServiceNames == {DEFAULT_SERVICES.FUSE, DEFAULT_SERVICES.ENMASSE, "unknown"}

ServiceArgs == {Unset} \cup {[set |-> TRUE, name |-> n] : n \in ServiceNames}
NamespaceArgs == {Unset, [set |-> TRUE, name |-> "ns-u1"]}
UserArgs == {Unset, [set |-> TRUE, username |-> "u1"]}
DispatchArgs == {Unset, [set |-> TRUE]}

Rejected(message) == [kind |-> "rejected", error |-> message]
Invoke(fn, args) == [kind |-> "provisioner", fn |-> fn, args |-> args]
ReturnsNull == [kind |-> "null"]

\* Mutant: the dispatch argument is not validated.
provisionOpenShift4Service_noDispatchCheck(service, namespace, user, dispatch) ==
  IF ~Given(service) THEN Rejected("service must be specified")
  ELSE IF ~Given(namespace) THEN Rejected("namespace must be provided")
  ELSE IF ~Given(user) THEN Rejected("user must be specified")
  ELSE IF service.name = DEFAULT_SERVICES.FUSE
    THEN Invoke("provisionFuseOnlineV4", <<dispatch>>)
  ELSE IF service.name = DEFAULT_SERVICES.ENMASSE
    THEN Invoke("provisionAMQOnlineV4", <<dispatch, user.username, namespace.name>>)
  ELSE ReturnsNull

\* Mutant: a name that is not a default service is answered with a rejection.
provisionOpenShift4Service_rejectUnknown(service, namespace, user, dispatch) ==
  IF ~Given(service) THEN Rejected("service must be specified")
  ELSE IF ~Given(namespace) THEN Rejected("namespace must be provided")
  ELSE IF ~Given(user) THEN Rejected("user must be specified")
  ELSE IF ~Given(dispatch) THEN Rejected("dispatch function must be specified")
  ELSE IF service.name = DEFAULT_SERVICES.FUSE
    THEN Invoke("provisionFuseOnlineV4", <<dispatch>>)
  ELSE IF service.name = DEFAULT_SERVICES.ENMASSE
    THEN Invoke("provisionAMQOnlineV4", <<dispatch, user.username, namespace.name>>)
  ELSE Rejected("unknown service")

\* What provisionOpenShift4Service returns: a rejected promise, the promise of
\* the provisioner it invoked, or null.
provisionOpenShift4Service(service, namespace, user, dispatch) ==
  IF ~Given(service) THEN Rejected("service must be specified")
  ELSE IF ~Given(namespace) THEN Rejected("namespace must be provided")
  ELSE IF ~Given(user) THEN Rejected("user must be specified")
  ELSE IF ~Given(dispatch) THEN Rejected("dispatch function must be specified")
  ELSE IF service.name = DEFAULT_SERVICES.FUSE
    THEN Invoke("provisionFuseOnlineV4", <<dispatch>>)
  ELSE IF service.name = DEFAULT_SERVICES.ENMASSE
    THEN Invoke("provisionAMQOnlineV4", <<dispatch, user.username, namespace.name>>)
  ELSE ReturnsNull

\* A provisioner, once invoked, submits its service's resources to the cluster API.
ProvisionerApiCalls(fn, call) ==
  <<[verb |-> "create", kind |-> "ServiceInstance", by |-> fn, call |-> call]>>

\* The notification a V4 provisioner hands to the dispatch it was given.
serviceProvisioned(fn, call) ==
  [type |-> "SERVICE_PROVISIONED", by |-> fn, call |-> call]

CallProvisionOpenShift4Service ==
  \E service \in ServiceArgs, namespace \in NamespaceArgs,
     user \in UserArgs, dispatch \in DispatchArgs :
    LET result == provisionOpenShift4Service(service, namespace, user, dispatch)
        call == <<"p4", Len(p4log) + 1>>
    IN /\ Len(p4log) < MaxP4Calls
       /\ p4log' = Append(p4log,
                          [service |-> service, namespace |-> namespace, user |-> user,
                           dispatch |-> dispatch, result |-> result])
       /\ IF result.kind = "provisioner"
            THEN /\ started' = Append(started,
                                      [fn |-> result.fn, args |-> result.args,
                                       call |-> call, done |-> FALSE])
                 /\ apiCalls' = apiCalls \o ProvisionerApiCalls(result.fn, call)
            ELSE UNCHANGED <<started, apiCalls>>
       /\ UNCHANGED <<watchVars, dispatched, sliceVars, prepVars, saveVars, renderVars, pageVars>>

\* An invoked V4 provisioner finishes and reports through its dispatch.
ProvisionerV4Done ==
  \E k \in 1..Len(started) :
    /\ started[k].fn \in {"provisionFuseOnlineV4", "provisionAMQOnlineV4"}
    /\ ~started[k].done
    /\ started' = [started EXCEPT ![k].done = TRUE]
    /\ dispatched' = Append(dispatched, serviceProvisioned(started[k].fn, started[k].call))
    /\ UNCHANGED <<watchVars, p4Vars, apiCalls, sliceVars, prepVars, saveVars, renderVars, pageVars>>

NextProvision4 == CallProvisionOpenShift4Service \/ ProvisionerV4Done

----------------------------------------------------------------------------
(* provisionManagedServiceSlices *)

\* The svcList argument: left out, or a list of service entries.
SvcLists ==
  {Unset} \cup
  {[set |-> TRUE, items |-> l] :
     l \in UNION {[1..n -> {[name |-> x] : x \in ServiceNames}] : n \in 0..MaxSvcs}}

FULFILLED_ACTION(base) ==
  CASE base = "CREATE_WALKTHROUGH" -> "CREATE_WALKTHROUGH_FULFILLED"
    [] base = "GET_ENMASSE_CREDENTIALS" -> "GET_ENMASSE_CREDENTIALS_FULFILLED"

middlewareTypes ==
  [CREATE_WALKTHROUGH |-> "CREATE_WALKTHROUGH",
   GET_ENMASSE_CREDENTIALS |-> "GET_ENMASSE_CREDENTIALS"]

\* One element of svcProvisions: the provisioner promise made for request
\* number req of svcList, and the promise its .then derives from it.
Task(fn, req) ==
  [fn |-> fn, req |-> req, prov |-> "pending", derived |-> "pending", seen |-> FALSE]

\* What the provisioner of request req fulfils with.
EnmasseKeys ==
  {"enmasse-broker-url", "enmasse-credentials-username", "enmasse-credentials-password"}

ProvisionValue(fn, req) ==
  IF fn = "provisionFuseOnline"
    THEN [event |-> [payload |-> [fuse |-> req]], attrs |-> [fuseAttrsOf |-> req]]
    ELSE [k \in EnmasseKeys |-> <<k, req>>]

\* The value the .then callback returns: the task's attributes.
TaskAttrs(t) ==
  IF t.fn = "provisionFuseOnline"
    THEN ProvisionValue(t.fn, t.req).attrs
    ELSE ProvisionValue(t.fn, t.req)

\* Mutant: the .then callback reports the provisioned service to the registry.
TaskNotification_registers(t) ==
  addWalkthroughService("w1", Payload("R1", t.req))

\* The action the .then callback dispatches.
TaskNotification(t) ==
  IF t.fn = "provisionFuseOnline"
    THEN [type |-> FULFILLED_ACTION(middlewareTypes.CREATE_WALKTHROUGH),
          payload |-> ProvisionValue(t.fn, t.req).event.payload]
    ELSE LET attrs == ProvisionValue(t.fn, t.req) IN
         [type |-> FULFILLED_ACTION(middlewareTypes.GET_ENMASSE_CREDENTIALS),
          payload |-> [url |-> attrs["enmasse-broker-url"],
                       username |-> attrs["enmasse-credentials-username"],
                       password |-> attrs["enmasse-credentials-password"]]]

\* Mutants of svcProvisions.
RECURSIVE svcProvisions_defaultFuse(_, _, _)
svcProvisions_defaultFuse(items, k, acc) ==
  IF k > Len(items) THEN acc
  ELSE svcProvisions_defaultFuse(items, k + 1,
         IF items[k].name = DEFAULT_SERVICES.ENMASSE
           THEN Append(acc, Task("provisionAMQOnline", k))
           ELSE Append(acc, Task("provisionFuseOnline", k)))

RECURSIVE svcProvisions_unshift(_, _, _)
svcProvisions_unshift(items, k, acc) ==
  IF k > Len(items) THEN acc
  ELSE svcProvisions_unshift(items, k + 1,
         IF items[k].name = DEFAULT_SERVICES.FUSE
           THEN Append(acc, Task("provisionFuseOnline", k))
         ELSE IF items[k].name = DEFAULT_SERVICES.ENMASSE
           THEN <<Task("provisionAMQOnline", k)>> \o acc
         ELSE acc)

\* svcList.reduce: the accumulator after the entries from k on are folded in.
RECURSIVE svcProvisions(_, _, _)
svcProvisions(items, k, acc) ==
  IF k > Len(items) THEN acc
  ELSE LET afterFuse ==
             IF items[k].name = DEFAULT_SERVICES.FUSE
               THEN Append(acc, Task("provisionFuseOnline", k))
               ELSE acc
           afterEnmasse ==
             IF items[k].name = DEFAULT_SERVICES.ENMASSE
               THEN Append(afterFuse, Task("provisionAMQOnline", k))
               ELSE afterFuse
       IN svcProvisions(items, k + 1, afterEnmasse)

AllFulfilled(ts) == \A j \in 1..Len(ts) : ts[j].seen /\ ts[j].derived = "fulfilled"

\* Mutant of PromiseAll: rejections are skipped, the fulfilled values delivered.
PromiseAll_partial(a, ts, i) ==
  IF a.state # "pending" THEN a
  ELSE IF \A j \in 1..Len(ts) : ts[j].seen
    THEN [a EXCEPT !.state = "resolved",
                   !.value = [j \in 1..Len(ts) |->
                                IF ts[j].derived = "fulfilled"
                                  THEN TaskAttrs(ts[j]) ELSE [failed |-> j]]]
  ELSE a

\* Mutant of PromiseAll: the first fulfilment seen resolves the aggregate.
PromiseAll_race(a, ts, i) ==
  IF a.state # "pending" THEN a
  ELSE IF ts[i].derived = "rejected"
    THEN [a EXCEPT !.state = "rejected", !.value = <<"reason", i>>]
  ELSE [a EXCEPT !.state = "resolved", !.value = <<TaskAttrs(ts[i])>>]

\* Promise.all after element i's reaction ran: the first rejection rejects the
\* aggregate, the last fulfilment resolves it with the values in array order.
PromiseAll(a, ts, i) ==
  IF a.state # "pending" THEN a
  ELSE IF ts[i].derived = "rejected"
    THEN [a EXCEPT !.state = "rejected", !.value = <<"reason", i>>]
  ELSE IF AllFulfilled(ts)
    THEN [a EXCEPT !.state = "resolved",
                   !.value = [j \in 1..Len(ts) |-> TaskAttrs(ts[j])]]
  ELSE a

\* One call of provisionManagedServiceSlices, up to its return of Promise.all.
StartProvisionManagedServiceSlices(svcList, user, namespace) ==
  LET made == IF Given(svcList) THEN svcProvisions(svcList.items, 1, <<>>) ELSE <<>>
      promise == [svcList |-> svcList, user |-> user, namespace |-> namespace,
                  state |-> IF made = <<>> THEN "resolved" ELSE "pending",
                  value |-> <<>>]
  IN /\ agg.state = "idle"
     /\ agg' = promise
     /\ tasks' = made
     /\ started' = started \o
          [j \in 1..Len(made) |->
             [fn |-> made[j].fn, args |-> <<user, namespace>>,
              call |-> <<"slices", j>>, done |-> FALSE]]
     /\ apiCalls' = apiCalls \o
          [j \in 1..Len(made) |-> ProvisionerApiCalls(made[j].fn, <<"slices", j>>)[1]]
     /\ UNCHANGED <<watchVars, dispatched, p4Vars, prepVars, saveVars, renderVars, pageVars>>

CallProvisionManagedServiceSlices ==
  \E svcList \in SvcLists, user \in UserArgs, namespace \in NamespaceArgs :
    StartProvisionManagedServiceSlices(svcList, user, namespace)

\* The provisioner promise of task i settles.
ProvisionerSettles ==
  \E i \in 1..Len(tasks) :
    \E outcome \in {"fulfilled", "rejected"} :
      /\ tasks[i].prov = "pending"
      /\ tasks' = [tasks EXCEPT ![i].prov = outcome]
      /\ UNCHANGED <<watchVars, dispatched, p4Vars, started, apiCalls, agg, prepVars, saveVars, renderVars, pageVars>>

\* Mutant of ThenCallback: once the aggregate has rejected, the callbacks of
\* the remaining tasks are cancelled and dispatch nothing.
ThenCallback_cancelled ==
  \E i \in 1..Len(tasks) :
    /\ tasks[i].prov # "pending"
    /\ tasks[i].derived = "pending"
    /\ tasks' = [tasks EXCEPT ![i].derived = tasks[i].prov]
    /\ dispatched' = IF tasks[i].prov = "fulfilled" /\ agg.state # "rejected"
                       THEN Append(dispatched, TaskNotification(tasks[i]))
                       ELSE dispatched
    /\ UNCHANGED <<watchVars, p4Vars, started, apiCalls, agg, prepVars, saveVars, renderVars, pageVars>>

\* The .then reaction of task i runs: on fulfilment the callback dispatches
\* and returns the attributes, a rejection passes through to the derived promise.
ThenCallback ==
  \E i \in 1..Len(tasks) :
    /\ tasks[i].prov # "pending"
    /\ tasks[i].derived = "pending"
    /\ tasks' = [tasks EXCEPT ![i].derived = tasks[i].prov]
    /\ dispatched' = IF tasks[i].prov = "fulfilled"
                       THEN Append(dispatched, TaskNotification(tasks[i]))
                       ELSE dispatched
    /\ UNCHANGED <<watchVars, p4Vars, started, apiCalls, agg, prepVars, saveVars, renderVars, pageVars>>

\* Promise.all's reaction to the derived promise of task i runs.
AllReaction ==
  \E i \in 1..Len(tasks) :
    /\ tasks[i].derived # "pending"
    /\ ~tasks[i].seen
    /\ tasks' = [tasks EXCEPT ![i].seen = TRUE]
    /\ agg' = PromiseAll(agg, tasks', i)
    /\ UNCHANGED <<watchVars, dispatched, p4Vars, started, apiCalls, prepVars, saveVars, renderVars, pageVars>>

NextSlices ==
  \/ CallProvisionManagedServiceSlices
  \/ ProvisionerSettles
  \/ ThenCallback
  \/ AllReaction

----------------------------------------------------------------------------
(* prepareWalkthroughV4 and prepareCustomWalkthroughNamespace *)

EmptyObject == [keys |-> {}]
AttrsArgs == {EmptyObject, [keys |-> {"user"}]}

initCustomThreadSuccess(payload) ==
  [type |-> "INIT_THREAD_FULFILLED", payload |-> payload]

PromiseResolve(value) == [state |-> "resolved", value |-> value]

\* Mutant: the call announces itself with a pending action first.
prepareWalkthroughV4_pending(walkthroughName, attrs) ==
  [dispatches |-> <<[type |-> "INIT_THREAD_PENDING", payload |-> EmptyObject],
                    initCustomThreadSuccess(EmptyObject)>>,
   apiCalls |-> <<>>,
   returns |-> PromiseResolve(<<>>)]

\* What one call does: the actions it dispatches, the cluster calls it
\* issues, the promise it returns.
prepareWalkthroughV4(walkthroughName, attrs) ==
  [dispatches |-> <<initCustomThreadSuccess(EmptyObject)>>,
   apiCalls |-> <<>>,
   returns |-> PromiseResolve(<<>>)]

prepareCustomWalkthroughNamespace(walkthoughName, attrs) ==
  [dispatches |-> <<initCustomThreadSuccess(EmptyObject)>>,
   apiCalls |-> <<>>,
   returns |-> PromiseResolve(<<>>)]

\* An entry of the `prepared` log.
PreparedEntry(fn, walkthroughName, attrs, effect) ==
  [fn |-> fn, walkthrough |-> walkthroughName, attrs |-> attrs, returns |-> effect.returns]

CallPrepareWalkthroughV4 ==
  \E w \in Walkthroughs, attrs \in AttrsArgs :
    LET effect == prepareWalkthroughV4(w, attrs) IN
      /\ Len(prepared) < MaxPrepare
      /\ prepared' = Append(prepared, PreparedEntry("prepareWalkthroughV4", w, attrs, effect))
      /\ dispatched' = dispatched \o effect.dispatches
      /\ apiCalls' = apiCalls \o effect.apiCalls
      /\ UNCHANGED <<watchVars, p4Vars, started, sliceVars, saveVars, renderVars, pageVars>>

CallPrepareCustomWalkthroughNamespace ==
  \E w \in Walkthroughs, attrs \in AttrsArgs :
    LET effect == prepareCustomWalkthroughNamespace(w, attrs) IN
      /\ Len(prepared) < MaxPrepare
      /\ prepared' = Append(prepared,
                            PreparedEntry("prepareCustomWalkthroughNamespace", w, attrs, effect))
      /\ dispatched' = dispatched \o effect.dispatches
      /\ apiCalls' = apiCalls \o effect.apiCalls
      /\ UNCHANGED <<watchVars, p4Vars, started, sliceVars, saveVars, renderVars, pageVars>>

NextPrepare == CallPrepareWalkthroughV4 \/ CallPrepareCustomWalkthroughNamespace

----------------------------------------------------------------------------
(* setUserWalkthroughs *)

DataArgs == {EmptyObject, [keys |-> {"repos"}]}
TokenArgs == {Unset, [set |-> TRUE]}

SaveRequest(k, data, token) ==
  [method |-> "post", url |-> "/user_walkthroughs", data |-> data, token |-> token,
   save |-> k]

SyncRequest(k) == [method |-> "post", url |-> "/sync-walkthroughs", save |-> k]

\* Mutant: the follow-up is attached as .finally, so it runs on failure too.
thenSuccess_finally(k, outcome) == <<SyncRequest(k)>>

\* The requests the .then(success => ...) reaction of call k issues once the
\* save request has settled: the callback runs on fulfilment only.
thenSuccess(k, outcome) ==
  IF outcome = "fulfilled" THEN <<SyncRequest(k)>> ELSE <<>>

\* setUserWalkthroughs(data, token): the save request goes out.
CallSetUserWalkthroughs ==
  \E data \in DataArgs, token \in TokenArgs :
    /\ Len(saves) < MaxSaves
    /\ saves' = Append(saves, [data |-> data, token |-> token,
                               save |-> "pending", chained |-> "pending"])
    /\ requests' = Append(requests, SaveRequest(Len(saves) + 1, data, token))
    /\ UNCHANGED <<watchVars, dispatched, p4Vars, started, apiCalls, sliceVars,
                   prepVars, renderVars, pageVars>>

\* The response of the save request of call k arrives (or the request fails).
SaveSettles ==
  \E k \in 1..Len(saves) :
    \E outcome \in {"fulfilled", "rejected"} :
      /\ saves[k].save = "pending"
      /\ saves' = [saves EXCEPT ![k].save = outcome]
      /\ UNCHANGED <<watchVars, dispatched, p4Vars, started, apiCalls, sliceVars,
                     prepVars, requests, renderVars, pageVars>>

\* The .then reaction of call k runs; the promise setUserWalkthroughs returned
\* settles as the save did (the callback returns nothing).
SaveReaction ==
  \E k \in 1..Len(saves) :
    /\ saves[k].save # "pending"
    /\ saves[k].chained = "pending"
    /\ saves' = [saves EXCEPT ![k].chained = saves[k].save]
    /\ requests' = requests \o thenSuccess(k, saves[k].save)
    /\ UNCHANGED <<watchVars, dispatched, p4Vars, started, apiCalls, sliceVars,
                   prepVars, renderVars, pageVars>>

NextSave == CallSetUserWalkthroughs \/ SaveSettles \/ SaveReaction

----------------------------------------------------------------------------
(* parseServiceInstanceTemplate and parseTemplate *)

\* A string is a sequence of characters. The characters that matter: a plain
\* letter, the slash, the double quote, the backslash, and, each taken as one
\* unit, the tag {{name}} and the HTML entities Mustache writes.
Letter == "a"
Slash == "/"
Quote == "\""
Backslash == "\\"
Tag == "{{name}}"
EntitySlash == "&#x2F;"
EntityQuote == "&quot;"

SeqsUpTo(chars, n) == UNION {[1..k -> chars] : k \in 0..n}

\* The template {kind: "ServiceInstance", spec: {user: <leaf>}}: its one
\* string that may hold a placeholder.
TemplateLeaves == SeqsUpTo({Letter, Quote, Tag}, MaxLeaf)

\* The attributes: {name: <value>}, or an object without the key.
AttrsValues == {Unset} \cup
  {[set |-> TRUE, value |-> v] : v \in SeqsUpTo({Letter, Slash, Quote, Backslash}, MaxValue)}

\* JSON.stringify on the contents of a string: quote and backslash are escaped.
RECURSIVE JSONStringify(_)
JSONStringify(str) ==
  IF str = <<>> THEN <<>>
  ELSE (IF Head(str) \in {Quote, Backslash} THEN <<Backslash, Head(str)>> ELSE <<Head(str)>>)
       \o JSONStringify(Tail(str))

\* Mustache's escapeHtml, applied to what a {{name}} tag is replaced by.
RECURSIVE escapeHtml(_)
escapeHtml(str) ==
  IF str = <<>> THEN <<>>
  ELSE <<(CASE Head(str) = Slash -> EntitySlash
            [] Head(str) = Quote -> EntityQuote
            [] OTHER -> Head(str))>>
       \o escapeHtml(Tail(str))

\* Mustache.render(text, attrs): a {{name}} tag becomes the HTML-escaped value
\* of attrs.name, or nothing when attrs has no such key.
RECURSIVE MustacheRender(_, _)
MustacheRender(text, attrs) ==
  IF text = <<>> THEN <<>>
  ELSE (IF Head(text) = Tag
          THEN (IF Given(attrs) THEN escapeHtml(attrs.value) ELSE <<>>)
          ELSE <<Head(text)>>)
       \o MustacheRender(Tail(text), attrs)

SyntaxError == [ok |-> FALSE, value |-> <<>>]

\* JSON.parse on the contents of a string: a bare quote ends the string early,
\* a backslash must be followed by a character JSON lets it escape.
RECURSIVE JSONParse(_)
JSONParse(text) ==
  IF text = <<>> THEN [ok |-> TRUE, value |-> <<>>]
  ELSE IF Head(text) = Quote THEN SyntaxError
  ELSE IF Head(text) = Backslash
    THEN IF Len(text) >= 2 /\ text[2] \in {Quote, Backslash, Slash}
           THEN LET rest == JSONParse(Tail(Tail(text))) IN
                  IF rest.ok THEN [ok |-> TRUE, value |-> <<text[2]>> \o rest.value]
                  ELSE SyntaxError
           ELSE SyntaxError
  ELSE LET rest == JSONParse(Tail(text)) IN
         IF rest.ok THEN [ok |-> TRUE, value |-> <<Head(text)>> \o rest.value]
         ELSE SyntaxError

\* parseServiceInstanceTemplate(siTemplate, attrs) and parseTemplate(template,
\* attrs) are the same two lines.
parseTemplate(template, attrs) == JSONParse(MustacheRender(JSONStringify(template), attrs))

parseServiceInstanceTemplate(siTemplate, attrs) ==
  JSONParse(MustacheRender(JSONStringify(siTemplate), attrs))

\* A call starts: the template is serialized.
RenderStart ==
  \E fn \in {"parseTemplate", "parseServiceInstanceTemplate"} :
    \E template \in TemplateLeaves, attrs \in AttrsValues :
      /\ rendering.stage = "idle"
      /\ rendering' = [stage |-> "serialized", fn |-> fn, template |-> template,
                       attrs |-> attrs, raw |-> JSONStringify(template)]
      /\ UNCHANGED <<watchVars, dispatched, p4Vars, started, apiCalls, sliceVars,
                     prepVars, saveVars, pageVars>>

\* Mustache substitutes the tags of the serialized text.
RenderSubstitute ==
  /\ rendering.stage = "serialized"
  /\ rendering' = [rendering EXCEPT !.stage = "rendered",
                                    !.raw = MustacheRender(rendering.raw, rendering.attrs)]
  /\ UNCHANGED <<watchVars, dispatched, p4Vars, started, apiCalls, sliceVars,
                 prepVars, saveVars, pageVars>>

\* The text is parsed and the manifest returned, or JSON.parse throws.
RenderParse ==
  /\ rendering.stage = "rendered"
  /\ rendering' =
       [stage |-> "returned", fn |-> rendering.fn, template |-> rendering.template,
        attrs |-> rendering.attrs, raw |-> rendering.raw,
        manifest |-> IF rendering.fn = "parseTemplate"
                       THEN parseTemplate(rendering.template, rendering.attrs)
                       ELSE parseServiceInstanceTemplate(rendering.template, rendering.attrs)]
  \* the text substituted in the step before is the text the call parses
  /\ rendering'.manifest = JSONParse(rendering.raw)
  /\ UNCHANGED <<watchVars, dispatched, p4Vars, started, apiCalls, sliceVars,
                 prepVars, saveVars, pageVars>>

NextRender == RenderStart \/ RenderSubstitute \/ RenderParse

----------------------------------------------------------------------------
(* LandingPage *)

\* What currentUser() can resolve to: no user, or a user whose fullName is
\* missing, empty or set.
FullNames == {None, "", "Ann Lee"}
Users == {[set |-> TRUE, fullName |-> f, username |-> "u1"] : f \in FullNames}
LookupResults == {Unset} \cup Users

\* JavaScript truthiness of a user's fullName.
Truthy(x) == x \notin {None, ""}

\* The state the constructor sets.
InitialState == [activeTabKey |-> 0, currentUserName |-> None]

\* Mutant: the callback does not look at the user it is given.
thenUser_unchecked(state, user) ==
  [state |-> IF Given(user)
               THEN [state EXCEPT !.currentUserName =
                       IF Truthy(user.fullName) THEN user.fullName ELSE user.username]
               ELSE state,
   calls |-> <<"getProgress">>]

\* The callback given to currentUser().then: the component state it leaves
\* and the props it calls.
thenUser(state, user) ==
  IF Given(user)
    THEN [state |-> [state EXCEPT !.currentUserName =
                       IF Truthy(user.fullName) THEN user.fullName ELSE user.username],
          calls |-> <<"getProgress">>]
    ELSE [state |-> state, calls |-> <<>>]

PropCall(i, fn) == [page |-> i, fn |-> fn]

\* A LandingPage is constructed and mounted.
ComponentDidMount ==
  LET i == Len(pages) + 1 IN
    /\ Len(pages) < MaxMounts
    /\ pages' = Append(pages, [state |-> InitialState,
                               lookup |-> [state |-> "pending"],
                               handled |-> FALSE])
    /\ propCalls' = propCalls \o <<PropCall(i, "getCustomWalkthroughs"),
                                   PropCall(i, "resetCurrentWalkthrough")>>
    /\ UNCHANGED <<watchVars, dispatched, p4Vars, started, apiCalls, sliceVars,
                   prepVars, saveVars, renderVars>>

\* The promise of currentUser() settles.
CurrentUserSettles ==
  \E i \in 1..Len(pages) :
    \E outcome \in {[state |-> "rejected"]} \cup
                    {[state |-> "fulfilled", value |-> u] : u \in LookupResults} :
      /\ pages[i].lookup.state = "pending"
      /\ pages' = [pages EXCEPT ![i].lookup = outcome]
      /\ UNCHANGED <<watchVars, dispatched, p4Vars, started, apiCalls, sliceVars,
                     prepVars, saveVars, renderVars, propCalls>>

\* The reaction of .then runs: the callback on fulfilment, nothing on rejection.
CurrentUserReaction ==
  \E i \in 1..Len(pages) :
    /\ pages[i].lookup.state # "pending"
    /\ ~pages[i].handled
    /\ IF pages[i].lookup.state = "fulfilled"
         THEN LET effect == thenUser(pages[i].state, pages[i].lookup.value) IN
                /\ pages' = [pages EXCEPT ![i].handled = TRUE, ![i].state = effect.state]
                /\ propCalls' = propCalls \o
                     [n \in 1..Len(effect.calls) |-> PropCall(i, effect.calls[n])]
         ELSE /\ pages' = [pages EXCEPT ![i].handled = TRUE]
              /\ propCalls' = propCalls
    /\ UNCHANGED <<watchVars, dispatched, p4Vars, started, apiCalls, sliceVars,
                   prepVars, saveVars, renderVars>>

NextPage == ComponentDidMount \/ CurrentUserSettles \/ CurrentUserReaction

----------------------------------------------------------------------------

Init ==
  /\ events = <<>>
  /\ dispatched = <<>>
  /\ registry = {}
  /\ p4log = <<>>
  /\ started = <<>>
  /\ apiCalls = <<>>
  /\ agg = [state |-> "idle"]
  /\ tasks = <<>>
  /\ prepared = <<>>
  /\ saves = <<>>
  /\ requests = <<>>
  /\ rendering = [stage |-> "idle"]
  /\ pages = <<>>
  /\ propCalls = <<>>

SpecWatch == Init /\ [][WatchEvent]_vars

SpecFeed == Init /\ [][FeedEvent]_vars

SpecProvision4 == Init /\ [][NextProvision4]_vars

SpecSlices == Init /\ [][NextSlices]_vars

SpecPrepare == Init /\ [][NextPrepare]_vars

SpecSave == Init /\ [][NextSave]_vars

SpecRender == Init /\ [][NextRender]_vars

SpecPage == Init /\ [][NextPage]_vars

\* The watch handler side by side with the provisioning operations, all on
\* the one dispatch log: a run of at most MaxWork calls and events, on small
\* inputs (one resource, well-formed arguments, lists of at most one entry).
Work ==
  Len(events) + Len(p4log) + Len(prepared) + (IF agg.state = "idle" THEN 0 ELSE 1)

SmallRun ==
  /\ \A n \in 1..Len(events) : events[n].ev.payload.id # "R2"
  /\ \A i \in 1..Len(p4log) :
       Given(p4log[i].service) /\ Given(p4log[i].namespace) /\
       Given(p4log[i].user) /\ Given(p4log[i].dispatch)
  /\ \A i \in 1..Len(prepared) :
       prepared[i].walkthrough = "w1" /\ prepared[i].attrs = EmptyObject

SmallSvcLists == {l \in SvcLists : Given(l) /\ Len(l.items) <= 1}

NextAll ==
  \/ Work < MaxWork /\ WatchEvent /\ SmallRun'
  \/ Work < MaxWork /\ CallProvisionOpenShift4Service /\ SmallRun'
  \/ ProvisionerV4Done
  \/ /\ Work < MaxWork
     /\ \E svcList \in SmallSvcLists, user \in UserArgs \ {Unset},
           namespace \in NamespaceArgs \ {Unset} :
          StartProvisionManagedServiceSlices(svcList, user, namespace)
  \/ ProvisionerSettles
  \/ ThenCallback
  \/ AllReaction
  \/ Work < MaxWork /\ CallPrepareWalkthroughV4 /\ SmallRun'
  \/ Work < MaxWork /\ CallPrepareCustomWalkthroughNamespace /\ SmallRun'

SpecAll == Init /\ [][NextAll]_vars

\* The module as a whole: every operation may run at any time. The
\* operations share only the dispatch log, so each group is also checked on
\* its own above.
Next == WatchEvent \/ NextProvision4 \/ NextSlices \/ NextPrepare \/ NextSave
        \/ NextRender \/ NextPage

Spec == Init /\ [][Next]_vars

----------------------------------------------------------------------------
(* The watch classifier: C1 to C4 *)

Last(s) == s[Len(s)]

IsData(x) == x.ev.type \in DataTypes
IsUpsertEvent(x) ==
  x.ev.type \in {OpenShiftWatchEvents.ADDED, OpenShiftWatchEvents.MODIFIED}

\* How many dispatched actions of a type name walkthrough w and resource r.
CountNotes(type, w, r) ==
  Cardinality({i \in 1..Len(dispatched) :
                 /\ dispatched[i].type = type
                 /\ dispatched[i].wt = w
                 /\ dispatched[i].payload.id = r})

\* The events so far are exactly [OPENED, ADDED(r), MODIFIED(r), DELETED(r), CLOSED]
\* of one walkthrough.
IsLifecycleFeed(w, r) ==
  /\ Len(events) = 5
  /\ \A i \in 1..5 : events[i].wt = w
  /\ [i \in 1..5 |-> events[i].ev.type] =
       <<OpenShiftWatchEvents.OPENED, OpenShiftWatchEvents.ADDED,
         OpenShiftWatchEvents.MODIFIED, OpenShiftWatchEvents.DELETED,
         OpenShiftWatchEvents.CLOSED>>
  /\ \A i \in 2..4 : events[i].ev.payload.id = r

\* C1 as the spec states it: feeding [OPENED, ADDED(R1), MODIFIED(R1),
\* DELETED(R1), CLOSED] for one walkthrough yields exactly one upsert
\* notification for R1, exactly one removal notification for R1 and nothing
\* for OPENED and CLOSED (two notifications in all).
C1_OneUpsert ==
  \A w \in Walkthroughs, r \in Resources :
    IsLifecycleFeed(w, r) =>
      /\ CountNotes("ADD_WALKTHROUGH_SERVICE", w, r) = 1
      /\ CountNotes("REMOVE_WALKTHROUGH_SERVICE", w, r) = 1
      /\ Len(dispatched) = 2

\* C1 amended: the same feed yields exactly two upsert notifications for R1
\* (one for ADDED, one for MODIFIED, each carrying its own event's payload),
\* then exactly one removal notification for R1, and nothing for OPENED and
\* CLOSED (three notifications in all).
C1_TwoUpserts ==
  \A w \in Walkthroughs, r \in Resources :
    IsLifecycleFeed(w, r) =>
      /\ CountNotes("ADD_WALKTHROUGH_SERVICE", w, r) = 2
      /\ CountNotes("REMOVE_WALKTHROUGH_SERVICE", w, r) = 1
      /\ dispatched = <<addWalkthroughService(w, events[2].ev.payload),
                        addWalkthroughService(w, events[3].ev.payload),
                        removeWalkthroughService(w, events[4].ev.payload)>>

C1_Witness ==
  /\ IsLifecycleFeed(FeedWalkthrough, "R1")
  /\ Len(dispatched) = 3

\* w's subscription has delivered CLOSED and now delivers the data event e.
DeliversAfterClosed(w, e) ==
  /\ Closed(w)
  /\ e.type \in DataTypes
  /\ events' = Append(events, [wt |-> w, ev |-> e])

\* C2 as the spec states it: CLOSED is terminal, an ADDED, MODIFIED or DELETED
\* event delivered after a CLOSED event of the same subscription produces no
\* notification and no registry change.
C2_ClosedIsTerminal ==
  [][\A w \in Walkthroughs :
       \A e \in WatchEventsAt(Len(events) + 1) :
         DeliversAfterClosed(w, e) =>
           dispatched' = dispatched /\ registry' = registry]_vars

\* C2 amended: handleResourceWatchEvent keeps no subscription state, so CLOSED
\* is not terminal for it: an ADDED or MODIFIED event delivered after CLOSED
\* still dispatches exactly one upsert notification, a DELETED event exactly
\* one removal notification, and the registry changes accordingly.
C2_ClosedIsNotTerminal ==
  [][\A w \in Walkthroughs :
       \A e \in WatchEventsAt(Len(events) + 1) :
         DeliversAfterClosed(w, e) =>
           /\ dispatched' =
                Append(dispatched,
                       IF e.type = OpenShiftWatchEvents.DELETED
                         THEN removeWalkthroughService(w, e.payload)
                         ELSE addWalkthroughService(w, e.payload))
           /\ e.type = OpenShiftWatchEvents.DELETED =>
                ~\E x \in registry' : SameKey(x, w, e.payload)
           /\ e.type # OpenShiftWatchEvents.DELETED =>
                [wt |-> w, res |-> e.payload] \in registry']_vars

C2_Witness ==
  \E i \in 1..Len(events) :
    /\ i < Len(events)
    /\ events[i].ev.type = OpenShiftWatchEvents.CLOSED
    /\ events[i].wt = Last(events).wt
    /\ Last(events).ev.type = OpenShiftWatchEvents.ADDED
    /\ dispatched # <<>>
    /\ Last(dispatched) = addWalkthroughService(Last(events).wt, Last(events).ev.payload)
    /\ [wt |-> Last(events).wt, res |-> Last(events).ev.payload] \in registry

\* The index of the most recent ADDED/MODIFIED/DELETED event for r under w
\* (0 when there is none).
LastDataIndex(w, r) ==
  LET hits == {i \in 1..Len(events) :
                 /\ events[i].wt = w
                 /\ IsData(events[i])
                 /\ events[i].ev.payload.id = r}
  IN IF hits = {} THEN 0 ELSE CHOOSE i \in hits : \A j \in hits : j <= i

EntriesOf(w, r) == {x \in registry : x.wt = w /\ x.res.id = r}

\* C3: while a subscription is active, after every event the registry holds
\* an entry for (W, R) iff the most recent ADDED/MODIFIED/DELETED event for R
\* under W was ADDED or MODIFIED, the entry equals that event's payload, and
\* no key has more than one entry.
C3_RegistryFollowsEvents ==
  \A w \in Walkthroughs, r \in Resources :
    ~Closed(w) =>
      LET i == LastDataIndex(w, r) IN
        /\ Cardinality(EntriesOf(w, r)) <= 1
        /\ EntriesOf(w, r) # {} <=> (i > 0 /\ IsUpsertEvent(events[i]))
        /\ EntriesOf(w, r) # {} =>
             EntriesOf(w, r) = {[wt |-> w, res |-> events[i].ev.payload]}

\* An entry replaced by a MODIFIED event, beside a key whose entry was deleted.
C3_Witness ==
  \E w \in Walkthroughs, r \in Resources, q \in Resources :
    /\ ~Closed(w)
    /\ LastDataIndex(w, r) > 1
    /\ events[LastDataIndex(w, r)].ev.type = OpenShiftWatchEvents.MODIFIED
    /\ \E j \in 1..(LastDataIndex(w, r) - 1) :
         /\ events[j].wt = w
         /\ events[j].ev.type = OpenShiftWatchEvents.ADDED
         /\ events[j].ev.payload.id = r
    /\ EntriesOf(w, r) = {[wt |-> w, res |-> events[LastDataIndex(w, r)].ev.payload]}
    /\ q # r
    /\ LastDataIndex(w, q) > 0
    /\ events[LastDataIndex(w, q)].ev.type = OpenShiftWatchEvents.DELETED
    /\ EntriesOf(w, q) = {}

\* C4: an OPENED or CLOSED event dispatches nothing and leaves the registry
\* as it was, so the entries present before CLOSED are present after it.
C4_LifecycleLeavesRegistry ==
  [][\A w \in Walkthroughs :
       \A t \in LifecycleTypes :
         events' = Append(events, [wt |-> w, ev |-> [type |-> t, payload |-> NoPayload]])
           => registry' = registry /\ dispatched' = dispatched]_vars

C4_Witness ==
  /\ events # <<>>
  /\ Last(events).ev.type = OpenShiftWatchEvents.CLOSED
  /\ EntriesOf(Last(events).wt, "R1") # {}

----------------------------------------------------------------------------
(* provisionOpenShift4Service: C5 *)

AnyUnset(c) ==
  ~Given(c.service) \/ ~Given(c.namespace) \/ ~Given(c.user) \/ ~Given(c.dispatch)

\* C5: a call with service, namespace, user or dispatch unset returns a
\* rejected promise whatever the service name, and that call invokes no
\* provisioner, issues no cluster call and dispatches nothing.
C5_RejectsBeforeSideEffects ==
  \A i \in 1..Len(p4log) :
    AnyUnset(p4log[i]) =>
      /\ p4log[i].result.kind = "rejected"
      /\ \A k \in 1..Len(started) : started[k].call # <<"p4", i>>
      /\ \A k \in 1..Len(apiCalls) : apiCalls[k].call # <<"p4", i>>
      /\ \A k \in 1..Len(dispatched) :
           dispatched[k].type = "SERVICE_PROVISIONED" => dispatched[k].call # <<"p4", i>>

\* A malformed call for a recognized service, after a well-formed call whose
\* provisioner ran and reported: only the well-formed call left traces.
C5_Witness ==
  /\ Len(p4log) = 2
  /\ ~AnyUnset(p4log[1])
  /\ p4log[1].result.kind = "provisioner"
  /\ Given(p4log[2].service)
  /\ p4log[2].service.name = DEFAULT_SERVICES.ENMASSE
  /\ ~Given(p4log[2].dispatch)
  /\ p4log[2].result.kind = "rejected"
  /\ Len(started) = 1
  /\ Len(apiCalls) = 1
  /\ Len(dispatched) = 1

----------------------------------------------------------------------------
(* provisionManagedServiceSlices: C6 to C8 *)

Recognized(name) == name \in {DEFAULT_SERVICES.FUSE, DEFAULT_SERVICES.ENMASSE}

\* The positions of the recognized requests of a list, and the t-th of them.
RecognizedAt(items) == {k \in 1..Len(items) : Recognized(items[k].name)}

NthRecognized(items, t) ==
  CHOOSE k \in RecognizedAt(items) :
    Cardinality({j \in RecognizedAt(items) : j < k}) = t - 1

\* The attributes the provisioner of the request at position k resolves to.
AttrsOfRequest(items, k) ==
  IF items[k].name = DEFAULT_SERVICES.FUSE
    THEN [fuseAttrsOf |-> k]
    ELSE [key \in EnmasseKeys |-> <<key, k>>]

NoneRecognized(svcList) ==
  ~Given(svcList) \/ RecognizedAt(svcList.items) = {}

\* C6: called with an absent list, an empty list or a list of unrecognized
\* names only, provisionManagedServiceSlices resolves to the empty list,
\* starts no provisioning task, issues no cluster call and dispatches nothing.
C6_NothingRecognizedNothingDone ==
  (agg.state # "idle" /\ NoneRecognized(agg.svcList)) =>
    /\ agg.state = "resolved"
    /\ agg.value = <<>>
    /\ tasks = <<>>
    /\ started = <<>>
    /\ apiCalls = <<>>
    /\ dispatched = <<>>

C6_Witness ==
  /\ agg.state = "resolved"
  /\ Given(agg.svcList)
  /\ Len(agg.svcList.items) >= 2
  /\ NoneRecognized(agg.svcList)
  /\ agg.value = <<>>

\* C7: when every task fulfils, the aggregate resolves to one attributes
\* entry per recognized request, in the order of the requests in the input,
\* whatever the order in which the tasks completed.
C7_ResultsInRequestOrder ==
  /\ (agg.state = "resolved" /\ Given(agg.svcList)) =>
       /\ Len(agg.value) = Cardinality(RecognizedAt(agg.svcList.items))
       /\ \A t \in 1..Len(agg.value) :
            agg.value[t] =
              AttrsOfRequest(agg.svcList.items, NthRecognized(agg.svcList.items, t))
  /\ (tasks # <<>> /\ AllFulfilled(tasks)) => agg.state = "resolved"

\* A list with an unrecognized entry between two requests of one service,
\* whose second task completed first.
C7_Witness ==
  /\ agg.state = "resolved"
  /\ Given(agg.svcList)
  /\ Len(agg.svcList.items) = 3
  /\ agg.svcList.items[1].name = DEFAULT_SERVICES.ENMASSE
  /\ agg.svcList.items[2].name = "unknown"
  /\ agg.svcList.items[3].name = DEFAULT_SERVICES.ENMASSE
  /\ Len(agg.value) = 2
  /\ Len(dispatched) = 2
  /\ dispatched[1].payload.url = <<"enmasse-broker-url", 3>>
  /\ dispatched[2].payload.url = <<"enmasse-broker-url", 1>>

\* C8: if any task fails the aggregate rejects and never delivers a result
\* list: it is never resolved once a provisioner has rejected, and it is
\* rejected as soon as Promise.all has seen the rejection, however many
\* siblings there are and whenever they complete.
C8_OneFailureRejectsAll ==
  \A i \in 1..Len(tasks) :
    /\ tasks[i].prov = "rejected" => agg.state # "resolved"
    /\ (tasks[i].seen /\ tasks[i].derived = "rejected") =>
         (agg.state = "rejected" /\ agg.value[1] = "reason")

\* One task failed and its two siblings fulfilled and dispatched, all three
\* seen by Promise.all.
C8_Witness ==
  /\ Len(tasks) = 3
  /\ \A j \in 1..3 : tasks[j].seen
  /\ tasks[1].derived = "fulfilled"
  /\ tasks[2].derived = "rejected"
  /\ tasks[3].derived = "fulfilled"
  /\ Len(dispatched) = 2
  /\ agg.state = "rejected"

----------------------------------------------------------------------------
(* prepareCustomWalkthroughNamespace: C9 *)

NamespaceCreations ==
  {k \in 1..Len(apiCalls) :
     apiCalls[k].verb = "create" /\ apiCalls[k].kind \in {"Namespace", "NamespaceRequest"}}

\* Two resolutions launched for the same walkthrough of the (one) current user.
TwoResolutions ==
  \E i, j \in 1..Len(prepared) :
    /\ i < j
    /\ prepared[i].fn = "prepareCustomWalkthroughNamespace"
    /\ prepared[j].fn = "prepareCustomWalkthroughNamespace"
    /\ prepared[i].walkthrough = prepared[j].walkthrough

\* C9: two simultaneous namespace resolutions for the same never-before-seen
\* user result in exactly one namespace-creation API call.
C9_OneNamespaceCreation ==
  (Len(prepared) = 2 /\ TwoResolutions) => Cardinality(NamespaceCreations) = 1

----------------------------------------------------------------------------
(* setUserWalkthroughs: C11 *)

RequestsAt(url, k) ==
  {n \in 1..Len(requests) : requests[n].url = url /\ requests[n].save = k}

\* C11: the follow-up POST /sync-walkthroughs of a call goes out only after
\* its POST /user_walkthroughs has succeeded: never while the save is pending,
\* never when it failed, exactly once when its success has been handled, and
\* always later than the save request itself.
C11_SyncAfterSuccessfulSave ==
  \A k \in 1..Len(saves) :
    /\ Cardinality(RequestsAt("/user_walkthroughs", k)) = 1
    /\ Cardinality(RequestsAt("/sync-walkthroughs", k)) =
         IF saves[k].chained = "fulfilled" THEN 1 ELSE 0
    /\ RequestsAt("/sync-walkthroughs", k) # {} => saves[k].save = "fulfilled"
    /\ \A n \in RequestsAt("/sync-walkthroughs", k) :
         \A m \in RequestsAt("/user_walkthroughs", k) : m < n

\* One save failed and was handled without a sync; a later one succeeded and
\* was followed by its single sync.
C11_Witness ==
  /\ Len(saves) = 2
  /\ saves[1].chained = "rejected"
  /\ saves[2].chained = "fulfilled"
  /\ Len(requests) = 3
  /\ requests[3] = SyncRequest(2)

----------------------------------------------------------------------------
(* parseServiceInstanceTemplate / parseTemplate: C12 *)

\* The template's string with every {{name}} replaced by the attribute's value.
RECURSIVE Substituted(_, _)
Substituted(leaf, value) ==
  IF leaf = <<>> THEN <<>>
  ELSE (IF Head(leaf) = Tag THEN value ELSE <<Head(leaf)>>) \o Substituted(Tail(leaf), value)

\* C12: for a template whose placeholders are covered by the attributes the
\* returned manifest holds the attribute's value in place of each {{name}},
\* and serializing that manifest and parsing it again gives the same manifest.
C12_RenderRoundTrip ==
  (rendering.stage = "returned" /\ Given(rendering.attrs)) =>
    /\ rendering.manifest.ok
    /\ rendering.manifest.value = Substituted(rendering.template, rendering.attrs.value)
    /\ JSONParse(JSONStringify(rendering.manifest.value)) = rendering.manifest

\* What the code does keep: a value of plain letters is substituted as it is
\* (rendering {{name}} with "a..." gives "a..."), and whatever manifest is
\* returned survives serializing and parsing again.
C12_PlainValuesRoundTrip ==
  (rendering.stage = "returned" /\ Given(rendering.attrs)) =>
    /\ (\A n \in 1..Len(rendering.attrs.value) : rendering.attrs.value[n] = Letter) =>
         /\ rendering.manifest.ok
         /\ rendering.manifest.value =
              Substituted(rendering.template, rendering.attrs.value)
    /\ rendering.manifest.ok =>
         JSONParse(JSONStringify(rendering.manifest.value)) = rendering.manifest

----------------------------------------------------------------------------
(* provisionOpenShift4Service: C14 *)

StartedBy(call) == {k \in 1..Len(started) : started[k].call = call}

ProvisionerOf(name) ==
  IF name = DEFAULT_SERVICES.FUSE THEN "provisionFuseOnlineV4" ELSE "provisionAMQOnlineV4"

\* C14: a call with all four arguments set and a name that is not a default
\* service returns null (no error, no rejected promise), invokes no
\* provisioner, issues no cluster call and dispatches nothing; with a default
\* service's name it invokes exactly that service's provisioner, once.
C14_UnknownNameIsSilentNoOp ==
  \A i \in 1..Len(p4log) :
    ~AnyUnset(p4log[i]) =>
      IF Recognized(p4log[i].service.name)
        THEN /\ p4log[i].result.kind = "provisioner"
             /\ Cardinality(StartedBy(<<"p4", i>>)) = 1
             /\ \A k \in StartedBy(<<"p4", i>>) :
                  started[k].fn = ProvisionerOf(p4log[i].service.name)
        ELSE /\ p4log[i].result = ReturnsNull
             /\ StartedBy(<<"p4", i>>) = {}
             /\ \A k \in 1..Len(apiCalls) : apiCalls[k].call # <<"p4", i>>
             /\ \A k \in 1..Len(dispatched) : dispatched[k].call # <<"p4", i>>

\* A well-formed call for an unknown service, then one for a default service
\* whose provisioner ran and reported: only the second left traces.
C14_Witness ==
  /\ Len(p4log) = 2
  /\ ~AnyUnset(p4log[1])
  /\ p4log[1].service.name = "unknown"
  /\ p4log[1].result = ReturnsNull
  /\ ~AnyUnset(p4log[2])
  /\ p4log[2].service.name = DEFAULT_SERVICES.ENMASSE
  /\ Len(started) = 1
  /\ started[1].call = <<"p4", 2>>
  /\ started[1].done
  /\ Len(dispatched) = 1

----------------------------------------------------------------------------
(* provisionManagedServiceSlices: C15, C16 *)

\* The notification owed for the request at position k of the input list.
NotificationOfRequest(items, k) ==
  IF items[k].name = DEFAULT_SERVICES.FUSE
    THEN [type |-> "CREATE_WALKTHROUGH_FULFILLED", payload |-> [fuse |-> k]]
    ELSE [type |-> "GET_ENMASSE_CREDENTIALS_FULFILLED",
          payload |-> [url |-> <<"enmasse-broker-url", k>>,
                       username |-> <<"enmasse-credentials-username", k>>,
                       password |-> <<"enmasse-credentials-password", k>>]]

TimesDispatched(action) ==
  Cardinality({n \in 1..Len(dispatched) : dispatched[n] = action})

\* C15: whenever the aggregate is resolved, the notification of every task
\* that was started has already been dispatched, exactly once, and nothing
\* else has been.
C15_ResolvedAfterAllNotified ==
  (agg.state = "resolved" /\ Given(agg.svcList)) =>
    /\ Len(tasks) = Cardinality(RecognizedAt(agg.svcList.items))
    /\ \A k \in RecognizedAt(agg.svcList.items) :
         TimesDispatched(NotificationOfRequest(agg.svcList.items, k)) = 1
    /\ Len(dispatched) = Len(tasks)

\* A resolved aggregate of three tasks, whose notifications went out in an
\* order other than the order of the requests.
C15_Witness ==
  /\ agg.state = "resolved"
  /\ Len(tasks) = 3
  /\ Len(dispatched) = 3
  /\ dispatched[1] = NotificationOfRequest(agg.svcList.items, 2)
  /\ dispatched[3] = NotificationOfRequest(agg.svcList.items, 1)
  /\ dispatched[1].type # dispatched[3].type

\* C16: the notification of a task is dispatched exactly when that task's own
\* provisioning has fulfilled and its callback has run, whatever its siblings
\* and the aggregate did (a failed sibling cancels nothing), never for a task
\* that failed, and a notification once dispatched is never taken back.
C16_NotificationFollowsOwnTask ==
  /\ [](\A j \in 1..Len(tasks) :
          /\ TimesDispatched(NotificationOfRequest(agg.svcList.items, tasks[j].req)) =
               IF tasks[j].derived = "fulfilled" THEN 1 ELSE 0
          /\ tasks[j].derived # "pending" => tasks[j].derived = tasks[j].prov)
  /\ [][\E more \in {<<>>} \cup {<<NotificationOfRequest(agg.svcList.items, tasks[j].req)>> :
                                     j \in 1..Len(tasks)} :
          dispatched' = dispatched \o more]_vars

\* The first task failed and the aggregate rejected at once; the two siblings
\* were still unseen by Promise.all, and both have dispatched.
C16_Witness ==
  /\ Len(tasks) = 3
  /\ tasks[1].derived = "rejected"
  /\ tasks[1].seen
  /\ agg.state = "rejected"
  /\ tasks[2].derived = "fulfilled"
  /\ tasks[3].derived = "fulfilled"
  /\ ~tasks[2].seen
  /\ ~tasks[3].seen
  /\ TimesDispatched(NotificationOfRequest(agg.svcList.items, tasks[2].req)) = 1
  /\ TimesDispatched(NotificationOfRequest(agg.svcList.items, tasks[3].req)) = 1

----------------------------------------------------------------------------
(* prepareWalkthroughV4 and prepareCustomWalkthroughNamespace: C17 *)

----------------------------------------------------------------------------
(* LandingPage: C18 *)

CallsOf(i, fn) == {n \in 1..Len(propCalls) : propCalls[n] = [page |-> i, fn |-> fn]}

\* C18: a mounted LandingPage has called getCustomWalkthroughs and
\* resetCurrentWalkthrough exactly once each, before the user lookup has
\* completed and before any getProgress; getProgress is called at most once,
\* and only when currentUser() has resolved to a user and the callback has
\* run, which also sets currentUserName to the user's fullName or else
\* username; when the lookup resolves to no user or rejects, getProgress is
\* never called and currentUserName stays null.
C18_MountCallsAndGuardedProgress ==
  \A i \in 1..Len(pages) :
    /\ Cardinality(CallsOf(i, "getCustomWalkthroughs")) = 1
    /\ Cardinality(CallsOf(i, "resetCurrentWalkthrough")) = 1
    /\ \A g \in CallsOf(i, "getProgress") :
         \A m \in CallsOf(i, "getCustomWalkthroughs") \cup
                   CallsOf(i, "resetCurrentWalkthrough") : m < g
    /\ Cardinality(CallsOf(i, "getProgress")) =
         IF /\ pages[i].handled
            /\ pages[i].lookup.state = "fulfilled"
            /\ pages[i].lookup.value.set
           THEN 1 ELSE 0
    /\ IF CallsOf(i, "getProgress") # {}
         THEN pages[i].state.currentUserName =
                IF pages[i].lookup.value.fullName \in {"none", ""}
                  THEN pages[i].lookup.value.username
                  ELSE pages[i].lookup.value.fullName
         ELSE pages[i].state.currentUserName = "none"

\* Two pages: the lookup of the first resolved to no user and was handled
\* without a getProgress; the second got a user without fullName, shows the
\* username and has called getProgress.
C18_Witness ==
  /\ Len(pages) = 2
  /\ pages[1].handled
  /\ pages[1].lookup.state = "fulfilled"
  /\ ~pages[1].lookup.value.set
  /\ CallsOf(1, "getProgress") = {}
  /\ pages[2].handled
  /\ pages[2].lookup.state = "fulfilled"
  /\ pages[2].lookup.value.set
  /\ pages[2].state.currentUserName = "u1"
  /\ Cardinality(CallsOf(2, "getProgress")) = 1

----------------------------------------------------------------------------
(* Single writer of the registry: C13 *)

IsRegistryNote(a) ==
  a.type \in {"ADD_WALKTHROUGH_SERVICE", "REMOVE_WALKTHROUGH_SERVICE"}

RegistryNotes == SelectSeq(dispatched, IsRegistryNote)

DataEvents == SelectSeq(events, IsData)

\* C13: the registry's add and remove notifications come from
\* handleResourceWatchEvent alone: with provisionManagedServiceSlices,
\* provisionOpenShift4Service and the prepare functions running beside the
\* watches of several walkthroughs, the add/remove notifications on the
\* dispatch log are, one for one and in order, those of the resource events
\* delivered, and every registry entry is the payload of one of them.
C13_WatchHandlerIsOnlyWriter ==
  /\ Len(RegistryNotes) = Len(DataEvents)
  /\ \A t \in 1..Len(RegistryNotes) :
       RegistryNotes[t] =
         [type |-> IF DataEvents[t].ev.type = "DELETED"
                     THEN "REMOVE_WALKTHROUGH_SERVICE" ELSE "ADD_WALKTHROUGH_SERVICE",
          wt |-> DataEvents[t].wt,
          payload |-> DataEvents[t].ev.payload]
  /\ \A e \in registry :
       \E t \in 1..Len(RegistryNotes) :
         /\ RegistryNotes[t].type = "ADD_WALKTHROUGH_SERVICE"
         /\ RegistryNotes[t].wt = e.wt
         /\ RegistryNotes[t].payload = e.res

\* The watches of two walkthroughs each delivered a resource, and between
\* the two a provisioning task of provisionManagedServiceSlices dispatched
\* its notification; the registry holds the two watched resources only.
C13_Witness ==
  /\ Len(events) = 2
  /\ events[1].wt = "w1"
  /\ events[2].wt = "w2"
  /\ Len(dispatched) = 3
  /\ dispatched[1].type = "ADD_WALKTHROUGH_SERVICE"
  /\ dispatched[2].type = "GET_ENMASSE_CREDENTIALS_FULFILLED"
  /\ dispatched[3].type = "ADD_WALKTHROUGH_SERVICE"
  /\ Cardinality(registry) = 2

====
